---- MODULE Spec2Model ----
(***************************************************************************)
(* A model of the CausalA request handlers of causality_module.py: the     *)
(* causal path and discovery queries and the per-source correlation       *)
(* cursor.  The handlers are translated from causality_module.py; the     *)
(* engine they call (self.CA, class CausalityAgent of causality_agent.py) *)
(* is modelled from the written contract of the engine (sections 3 and 4  *)
(* of the specification).                                                  *)
(***************************************************************************)
EXTENDS Integers, Sequences, FiniteSets, TLC

VARIABLES
    graph,      \* KnowledgeStore: the causal edges, in the store's native order
    corr,       \* KnowledgeStore: correlation_table, per source entity
    available,  \* KnowledgeStore: whether a query of the store succeeds
    offsets,    \* CursorState: source entity -> zero-based offset
    last,       \* the request the dispatcher handled last
    reply,      \* the reply the handler returned to it
    ca_calls,   \* the engine operations the last handler invoked
    ca_found,   \* the edges the engine returned to it
    returned,   \* history: per source, the records replied since the last reset
    first,      \* history: per source, the first record ever replied
    cleared,    \* history: the last reset's argument and the offsets it found
    pc,         \* concurrent callers: position of each caller
    wsrc,       \* concurrent callers: the source name of the call in flight
    woff,       \* concurrent callers: the offset the call observed
    wres,       \* concurrent callers: the record the call classified
    lock,       \* concurrent callers: per source, the caller inside advance (0: none)
    overlap     \* history: per source, two calls were in flight together

vars == <<graph, corr, available, offsets, last, reply, ca_calls, ca_found, returned, first, cleared,
          pc, wsrc, woff, wres, lock, overlap>>

store == <<graph, corr, available>>
conc == <<pc, wsrc, woff, wres, lock, overlap>>

(***************************************************************************)
(* Bounds of the model.                                                    *)
(***************************************************************************)
MaxTableLen == 2
MaxEdges == 2

(***************************************************************************)
(* Entities and the KnowledgeStore.                                        *)
(***************************************************************************)
Entities == {"AKT1", "BRAF", "MAPK1"}

\* The entities a correlation table ranks against a source, in the store's
\* fixed order; correlations in thousandths, not in magnitude order.
RankedTargets == <<"BRAF", "PTPN1", "AGPS", "MAPK1", "AKT1">>
RankedCorrelations == <<761, 581, -949>>

TargetsOf(source) ==
    LET keep(t) == t # source
    IN  SelectSeq(RankedTargets, keep)

CorrelationRecord(source, i) ==
    LET ts == TargetsOf(source)
    IN  [id2 |-> ts[((i - 1) % Len(ts)) + 1],
         correlation |-> RankedCorrelations[((i - 1) % Len(RankedCorrelations)) + 1]]

\* correlation_table(source) of a store that holds n records for source
TableOfLen(source, n) == [i \in 1..n |-> CorrelationRecord(source, i)]

\* The entities the correlation data covers; any other source is unknown to
\* it and has an empty table.
CorrelatedSources == {"AKT1", "BRAF"}

CorrelationStores ==
    { [s \in Entities |->
          IF s \in CorrelatedSources THEN TableOfLen(s, len[s]) ELSE <<>>] :
        len \in [CorrelatedSources -> 0..MaxTableLen] }

correlation_table(source) == corr[source]

(***************************************************************************)
(* Relation types and edges.  A relation reads subject-to-object, or, for  *)
(* the inverse-phrased ones, object-to-subject.                            *)
(***************************************************************************)
RelationTypes ==
    {"phosphorylates", "dephosphorylates", "upregulates-expression",
     "downregulates-expression", "modulates", "is-phosphorylated-by",
     "is-dephosphorylated-by", "expression-is-up",
     "expression-is-upregulated-by", "expression-is-downregulated-by"}

InverseRelations ==
    {"is-phosphorylated-by", "is-dephosphorylated-by", "expression-is-up",
     "expression-is-upregulated-by", "expression-is-downregulated-by"}

ModSite(residue, position) == [residue |-> residue, position |-> position]

Edge(id1, rel, id2, mods1, mods2) ==
    [id1 |-> id1, rel |-> rel, id2 |-> id2, mods1 |-> mods1, mods2 |-> mods2]

\* The causal source and target of an edge, by the reading direction of its relation
edge_source(e) == IF e.rel \in InverseRelations THEN e.id2 ELSE e.id1
edge_target(e) == IF e.rel \in InverseRelations THEN e.id1 ELSE e.id2

\* The ordered pairs of entities a store may link by a phosphorylation
LinkedPairs ==
    {<<"MAPK1", "BRAF">>, <<"BRAF", "MAPK1">>, <<"MAPK1", "AKT1">>,
     <<"AKT1", "BRAF">>}

\* The edges a store may hold
EdgePool ==
    { Edge(p[1], "phosphorylates", p[2], <<>>,
           <<ModSite("S", "133"), ModSite("T", "202")>>) : p \in LinkedPairs }
    \cup { Edge("BRAF", "is-phosphorylated-by", "MAPK1",
                <<ModSite("S", "601")>>, <<ModSite("T", "185")>>),
           Edge("MAPK1", "modulates", "BRAF", <<>>, <<>>),
           Edge("MAPK1", "phosphorylates", "AKT1", <<>>, <<>>),
           Edge("AKT1", "upregulates-expression", "BRAF", <<>>, <<>>) }

RECURSIVE SeqsUpTo(_, _)
SeqsUpTo(S, n) ==
    IF n = 0 THEN {<<>>}
    ELSE LET shorter == SeqsUpTo(S, n - 1)
         IN  shorter \cup { Append(q, x) : q \in shorter, x \in S }

Graphs == SeqsUpTo(EdgePool, MaxEdges)

edges_from(entity) ==
    LET from(e) == edge_source(e) = entity
    IN  SelectSeq(graph, from)

edges_to(entity) ==
    LET to(e) == edge_target(e) = entity
    IN  SelectSeq(graph, to)

(***************************************************************************)
(* The engine (self.CA): path resolution.                                  *)
(***************************************************************************)
NotFound == Edge("", "", "", <<>>, <<>>)

Directions == {"FORWARD", "REVERSE", "EITHER"}
NoDirection == "nil"

\* A resolver that treats every request as EITHER
direction_ignored(direction) == "EITHER"

\* Faulty variant: absence of a direction defaults to FORWARD
direction_forward_by_default(direction) ==
    IF direction = NoDirection THEN "FORWARD" ELSE direction

\* Absence of a direction defaults to EITHER
direction_of(direction) == IF direction = NoDirection THEN "EITHER" ELSE direction

\* The edges of edges_from(source) whose far endpoint is target
forward_matches(source, target) ==
    LET hit(e) == edge_target(e) = target
    IN  SelectSeq(edges_from(source), hit)

\* The edges of edges_to(source) whose far endpoint is target
reverse_matches(source, target) ==
    LET hit(e) == edge_source(e) = target
    IN  SelectSeq(edges_to(source), hit)

first_or_NotFound(edges) == IF edges = <<>> THEN NotFound ELSE edges[1]

\* A resolver whose EITHER takes the first edge linking the two entities in
\* the order of the store
resolve_in_store_order(source, target, direction) ==
    LET d == direction_of(direction)
        fwd == forward_matches(source, target)
        rev == reverse_matches(source, target)
        links(e) == \/ edge_source(e) = source /\ edge_target(e) = target
                    \/ edge_source(e) = target /\ edge_target(e) = source
    IN  CASE d = "FORWARD" -> first_or_NotFound(fwd)
          [] d = "REVERSE" -> first_or_NotFound(rev)
          [] OTHER -> first_or_NotFound(SelectSeq(graph, links))

resolve(source, target, direction) ==
    LET d == direction_of(direction)
        fwd == forward_matches(source, target)
        rev == reverse_matches(source, target)
    IN  CASE d = "FORWARD" -> first_or_NotFound(fwd)
          [] d = "REVERSE" -> first_or_NotFound(rev)
          [] OTHER -> IF fwd # <<>> THEN fwd[1] ELSE first_or_NotFound(rev)

find_causality(param) ==
    resolve(param.source.id, param.target.id, param.direction)

(***************************************************************************)
(* The engine (self.CA): the correlation cursor.                           *)
(***************************************************************************)
\* What find_next_correlation returns when the cursor is exhausted
Exhausted == [id2 |-> "", correlation |-> 0, explainable |-> ""]

explainability(source, target) ==
    IF resolve(source, target, "EITHER") # NotFound
    THEN "explainable" ELSE "unexplainable"

\* Faulty variant: the flag of the first record of the table is reused for
\* the records after it
explained_correlation_first_flag(source, offset) ==
    LET rec == correlation_table(source)[offset + 1]
    IN  [id2 |-> rec.id2, correlation |-> rec.correlation,
         explainable |-> explainability(source, correlation_table(source)[1].id2)]

\* The record at a zero-based offset of the table, classified
explained_correlation(source, offset) ==
    LET rec == correlation_table(source)[offset + 1]
    IN  [id2 |-> rec.id2, correlation |-> rec.correlation,
         explainable |-> explainability(source, rec.id2)]

is_exhausted(source, offset) == offset >= Len(correlation_table(source))

\* Faulty variant: an exhausted cursor wraps back to the start of the table
find_next_correlation_wrapping(ofs, source) ==
    LET offset == ofs[source]
    IN  IF is_exhausted(source, offset)
        THEN [res |-> Exhausted, offsets |-> [ofs EXCEPT ![source] = 0]]
        ELSE [res |-> explained_correlation(source, offset),
              offsets |-> [ofs EXCEPT ![source] = offset + 1]]

\* Faulty variant: an advance of an exhausted source still counts
find_next_correlation_counting(ofs, source) ==
    LET offset == ofs[source]
    IN  IF is_exhausted(source, offset)
        THEN [res |-> Exhausted, offsets |-> [ofs EXCEPT ![source] = offset + 1]]
        ELSE [res |-> explained_correlation(source, offset),
              offsets |-> [ofs EXCEPT ![source] = offset + 1]]

\* advance(source) on cursor state ofs: the result and the cursor state after
find_next_correlation(ofs, source) ==
    LET offset == ofs[source]
    IN  IF is_exhausted(source, offset)
        THEN [res |-> Exhausted, offsets |-> ofs]
        ELSE [res |-> explained_correlation(source, offset),
              offsets |-> [ofs EXCEPT ![source] = offset + 1]]

\* reset with no source: every offset back to 0
reset_indices(ofs) == [s \in DOMAIN ofs |-> 0]

(***************************************************************************)
(* KQML request arguments and replies.                                     *)
(***************************************************************************)
\* An agent argument of a request: absent, or a list of agents by NAME
NoArg == [present |-> FALSE, names |-> <<>>]
Agents(names) == [present |-> TRUE, names |-> names]

\* kl.get('NAME') of an agent term that carries no NAME
NoName == "nil"

KQMLArgs ==
    {NoArg, Agents(<<>>), Agents(<<"AKT1", "BRAF">>), Agents(<<NoName>>)}
    \cup { Agents(<<n>>) : n \in Entities }

\* Python's `not arg`: None and the empty list are both false
is_empty(arg) == ~arg.present \/ arg.names = <<>>

_get_kqml_names(kqmlList) ==
    IF is_empty(kqmlList) THEN <<>> ELSE kqmlList.names

\* `kl.get('NAME').string_value()` raises AttributeError on a term with no NAME
names_raise(kqmlList) ==
    /\ ~is_empty(kqmlList)
    /\ \E i \in 1..Len(kqmlList.names) : kqmlList.names[i] = NoName

\* Faulty variant: the last name of the list instead of the first
last_name(names) == names[Len(names)]

\* `names[0]`
first_name(names) == names[1]

Request(task, source, target, direction, type) ==
    [task |-> task, source |-> source, target |-> target,
     direction |-> direction, type |-> type]

NoRequest == Request("", NoArg, NoArg, NoDirection, "")

NoReply ==
    [head |-> "", reason |-> "", target |-> "", correlation |-> "",
     explainable |-> "", paths |-> <<>>, provenance |-> 0]

make_failure(reason) ==
    [NoReply EXCEPT !.head = "FAILURE", !.reason = reason]

\* Faulty variant: the failure of the engine is reported as a negative result
reported_as_no_path(exception) == make_failure("NO_PATH_FOUND")

\* An exception of the engine leaves the handler that called it: the failure
\* of a store query is one (StoreUnavailable)
propagated(exception) ==
    [NoReply EXCEPT !.head = "ERROR", !.reason = exception]

\* What a handler did: its reply, the cursor state it leaves, the engine
\* operations it invoked
Outcome(r, ofs, calls) == [reply |-> r, offsets |-> ofs, ca_calls |-> calls]

\* What a query handler did: its reply, the engine operations it invoked and
\* the edges they returned
Queried(r, calls, found) == [reply |-> r, ca_calls |-> calls, found |-> found]

(***************************************************************************)
(* DATASET-CORRELATED-ENTITY and RESET-CAUSALITY-INDICES.                  *)
(***************************************************************************)
correlated_entity_reply(res) ==
    [NoReply EXCEPT !.head = "SUCCESS",
                    !.target = res.id2,
                    !.correlation = ToString(res.correlation),
                    !.explainable = res.explainable]

\* Faulty variant: the empty result is not checked for
never_no_result(res) == FALSE

\* `res == ''`
is_no_result(res) == res = Exhausted

\* Faulty variant: the cursor is advanced before the source name is
\* extracted, for the first source when the request names none
dataset_correlated_entity_advancing_first(ofs, source_arg) ==
    IF names_raise(source_arg)
    THEN Outcome(propagated("AttributeError"), ofs, {})
    ELSE LET source_names == _get_kqml_names(source_arg)
             source_name == IF source_names = <<>> THEN "AKT1"
                            ELSE first_name(source_names)
             r == find_next_correlation(ofs, source_name)
         IN  IF ~available
             THEN Outcome(propagated("StoreUnavailable"), ofs,
                          {"find_next_correlation"})
             ELSE IF source_names = <<>>
             THEN Outcome(make_failure("MISSING_MECHANISM"), r.offsets,
                          {"find_next_correlation"})
             ELSE IF is_no_result(r.res)
             THEN Outcome(make_failure("NO_PATH_FOUND"), r.offsets,
                          {"find_next_correlation"})
             ELSE Outcome(correlated_entity_reply(r.res), r.offsets,
                          {"find_next_correlation"})

dataset_correlated_entity(ofs, source_arg) ==
    IF is_empty(source_arg)
    THEN Outcome(make_failure("MISSING_MECHANISM"), ofs, {})
    ELSE LET source_names == _get_kqml_names(source_arg)
         IN  IF names_raise(source_arg)
             THEN Outcome(propagated("AttributeError"), ofs, {})
             ELSE IF source_names = <<>>
             THEN Outcome(make_failure("MISSING_MECHANISM"), ofs, {})
             ELSE LET source_name == first_name(source_names)
                      r == find_next_correlation(ofs, source_name)
                  IN  IF ~available
                      THEN Outcome(propagated("StoreUnavailable"), ofs,
                                   {"find_next_correlation"})
                      ELSE IF is_no_result(r.res)
                      THEN Outcome(make_failure("NO_PATH_FOUND"), r.offsets,
                                   {"find_next_correlation"})
                      ELSE Outcome(correlated_entity_reply(r.res), r.offsets,
                                   {"find_next_correlation"})

\* Faulty variant: the handler replies without calling the engine
reset_causality_indices_skipped(ofs, content) ==
    Outcome([NoReply EXCEPT !.head = "SUCCESS"], ofs, {})

\* Faulty variant: the handler resets only the source the request names
reset_causality_indices_keyed(ofs, content) ==
    Outcome([NoReply EXCEPT !.head = "SUCCESS"],
            IF is_empty(content) THEN reset_indices(ofs)
            ELSE [ofs EXCEPT ![first_name(_get_kqml_names(content))] = 0],
            {"reset_indices"})

reset_causality_indices(ofs, content) ==
    Outcome([NoReply EXCEPT !.head = "SUCCESS"], reset_indices(ofs),
            {"reset_indices"})

\* The content of a reply that carries a correlation record
Returned(r) ==
    [target |-> r.target, correlation |-> r.correlation,
     explainable |-> r.explainable]

NoRecord == [target |-> "", correlation |-> "", explainable |-> ""]

\* The source a request is about: the first name of its SOURCE argument
requested(source_arg) == source_arg.names[1]

respond_dataset_correlated_entity(source_arg) ==
    LET out == dataset_correlated_entity(offsets, source_arg)
    IN  /\ last' = Request("DATASET-CORRELATED-ENTITY", source_arg, NoArg,
                           NoDirection, "")
        /\ reply' = out.reply
        /\ offsets' = out.offsets
        /\ ca_calls' = out.ca_calls
        /\ ca_found' = <<>>
        /\ IF out.reply.head = "SUCCESS"
           THEN LET S == requested(source_arg)
                IN  /\ returned' = [returned EXCEPT
                                       ![S] = Append(@, Returned(out.reply))]
                    /\ first' = [first EXCEPT
                                    ![S] = IF @ = NoRecord
                                           THEN Returned(out.reply) ELSE @]
           ELSE UNCHANGED <<returned, first>>
        /\ UNCHANGED <<store, cleared, conc>>

respond_reset_causality_indices(source_arg) ==
    LET out == reset_causality_indices(offsets, source_arg)
    IN  /\ last' = Request("RESET-CAUSALITY-INDICES", source_arg, NoArg,
                           NoDirection, "")
        /\ reply' = out.reply
        /\ offsets' = out.offsets
        /\ ca_calls' = out.ca_calls
        /\ ca_found' = <<>>
        /\ returned' = [s \in Entities |-> <<>>]
        /\ cleared' = [by |-> source_arg, offsets |-> offsets]
        /\ UNCHANGED <<store, first, conc>>

(***************************************************************************)
(* The module after construction, serving one request at a time.           *)
(***************************************************************************)
Callers == {1, 2}

\* What a RESET-CAUSALITY-INDICES request may carry: nothing, or a source
ResetArgs == {NoArg} \cup { Agents(<<n>>) : n \in CorrelatedSources }

\* The stores of the cursor specification: at most one causal edge
CursorGraphs == { g \in Graphs : Len(g) <= 1 }

InitEngine ==
    /\ available = TRUE
    /\ offsets = [s \in Entities |-> 0]
    /\ last = NoRequest
    /\ reply = NoReply
    /\ ca_calls = {}
    /\ ca_found = <<>>
    /\ returned = [s \in Entities |-> <<>>]
    /\ first = [s \in Entities |-> NoRecord]
    /\ cleared = [by |-> NoArg, offsets |-> [s \in Entities |-> 0]]
    /\ pc = [w \in Callers |-> "idle"]
    /\ wsrc = [w \in Callers |-> ""]
    /\ woff = [w \in Callers |-> 0]
    /\ wres = [w \in Callers |-> Exhausted]
    /\ lock = [s \in Entities |-> 0]
    /\ overlap = [s \in Entities |-> FALSE]

Init ==
    /\ graph \in CursorGraphs
    /\ corr \in CorrelationStores
    /\ InitEngine

Next ==
    \/ \E source_arg \in KQMLArgs : respond_dataset_correlated_entity(source_arg)
    \/ \E source_arg \in ResetArgs : respond_reset_causality_indices(source_arg)

Spec == Init /\ [][Next]_vars

(***************************************************************************)
(* Concurrent callers of DATASET-CORRELATED-ENTITY: the steps of one       *)
(* advance (read offset, compute explainability, write offset).  The three *)
(* steps of a source are one atomic unit: a caller enters only when no     *)
(* other caller is inside the advance of the same source.                  *)
(***************************************************************************)
InFlight == {"classify", "write"}

\* Faulty variant: a caller enters whether or not another is inside
may_enter_unguarded(w, source) == TRUE

may_enter(w, source) == lock[source] = 0

advance_call(w, source_arg) ==
    /\ pc[w] = "idle"
    /\ IF is_empty(source_arg) \/ names_raise(source_arg)
          \/ _get_kqml_names(source_arg) = <<>>
       THEN /\ reply' = IF names_raise(source_arg)
                        THEN propagated("AttributeError")
                        ELSE make_failure("MISSING_MECHANISM")
            /\ last' = Request("DATASET-CORRELATED-ENTITY", source_arg, NoArg,
                               NoDirection, "")
            /\ ca_calls' = {}
            /\ UNCHANGED <<pc, wsrc, overlap>>
       ELSE LET S == first_name(_get_kqml_names(source_arg))
            IN  /\ pc' = [pc EXCEPT ![w] = "call"]
                /\ wsrc' = [wsrc EXCEPT ![w] = S]
                /\ overlap' = [overlap EXCEPT
                                  ![S] = @ \/ \E v \in Callers \ {w} :
                                                 pc[v] # "idle" /\ wsrc[v] = S]
                /\ UNCHANGED <<reply, last, ca_calls>>
    /\ UNCHANGED <<store, offsets, ca_found, returned, first, cleared, woff,
                   wres, lock>>

advance_read(w) ==
    /\ pc[w] = "call"
    /\ may_enter(w, wsrc[w])
    /\ lock' = [lock EXCEPT ![wsrc[w]] = w]
    /\ woff' = [woff EXCEPT ![w] = offsets[wsrc[w]]]
    /\ pc' = [pc EXCEPT ![w] = "classify"]
    /\ UNCHANGED <<store, offsets, last, reply, ca_calls, ca_found, returned,
                   first, cleared, wsrc, wres, overlap>>

advance_classify(w) ==
    /\ pc[w] = "classify"
    /\ IF is_exhausted(wsrc[w], woff[w])
       THEN /\ reply' = make_failure("NO_PATH_FOUND")
            /\ last' = Request("DATASET-CORRELATED-ENTITY", Agents(<<wsrc[w]>>),
                               NoArg, NoDirection, "")
            /\ ca_calls' = {"find_next_correlation"}
            /\ lock' = [lock EXCEPT ![wsrc[w]] = 0]
            /\ pc' = [pc EXCEPT ![w] = "idle"]
            /\ wsrc' = [wsrc EXCEPT ![w] = ""]
            /\ woff' = [woff EXCEPT ![w] = 0]
            /\ UNCHANGED wres
       ELSE /\ wres' = [wres EXCEPT
                          ![w] = explained_correlation(wsrc[w], woff[w])]
            /\ pc' = [pc EXCEPT ![w] = "write"]
            /\ UNCHANGED <<reply, last, ca_calls, lock, wsrc, woff>>
    /\ UNCHANGED <<store, offsets, ca_found, returned, first, cleared, overlap>>

advance_write(w) ==
    /\ pc[w] = "write"
    /\ offsets' = [offsets EXCEPT ![wsrc[w]] = woff[w] + 1]
    /\ lock' = [lock EXCEPT ![wsrc[w]] = 0]
    /\ reply' = correlated_entity_reply(wres[w])
    /\ last' = Request("DATASET-CORRELATED-ENTITY", Agents(<<wsrc[w]>>),
                       NoArg, NoDirection, "")
    /\ ca_calls' = {"find_next_correlation"}
    /\ returned' = [returned EXCEPT
                       ![wsrc[w]] = Append(@, Returned(correlated_entity_reply(wres[w])))]
    /\ pc' = [pc EXCEPT ![w] = "idle"]
    /\ wsrc' = [wsrc EXCEPT ![w] = ""]
    /\ woff' = [woff EXCEPT ![w] = 0]
    /\ wres' = [wres EXCEPT ![w] = Exhausted]
    /\ UNCHANGED <<store, ca_found, first, cleared, overlap>>

NextConc ==
    \/ \E w \in Callers, source_arg \in KQMLArgs : advance_call(w, source_arg)
    \/ \E w \in Callers : advance_read(w)
    \/ \E w \in Callers : advance_classify(w)
    \/ \E w \in Callers : advance_write(w)

\* The stores of the concurrent specification: no causal edge, or one that
\* explains the first correlation of AKT1
ConcGraphs ==
    {<<>>, <<Edge("AKT1", "phosphorylates", "BRAF", <<>>,
                  <<ModSite("S", "133"), ModSite("T", "202")>>)>>}

InitConc ==
    /\ graph \in ConcGraphs
    /\ corr \in CorrelationStores
    /\ InitEngine

SpecConc == InitConc /\ [][NextConc]_vars

(***************************************************************************)
(* Properties of the correlation cursor.                                   *)
(***************************************************************************)
IsAdvance(req) ==
    req.task = "DATASET-CORRELATED-ENTITY" /\ ~is_empty(req.source)

IsReset(req) == req.task = "RESET-CAUSALITY-INDICES"

\* The reply content of the record at table position n (one-based) of S
Carries(rec, S, n) ==
    /\ rec.target = corr[S][n].id2
    /\ rec.correlation = ToString(corr[S][n].correlation)

\* C1: k successive advances of a source S with no reset in between, k not
\* larger than the length of the table of S, return the records at offsets
\* 0..k-1 in that order: the n-th reply since the last reset carries the record
\* at offset n-1, none twice and none skipped.
C1_AdvanceReturnsTableInOrder ==
    \A S \in Entities :
        /\ Len(returned[S]) <= Len(corr[S])
        /\ offsets[S] = Len(returned[S])
        /\ \A n \in 1..Len(returned[S]) : Carries(returned[S][n], S, n)

\* A source with a full table has been advanced through all of it
C1_Witness ==
    \E S \in Entities :
        /\ Len(corr[S]) = MaxTableLen
        /\ Len(returned[S]) = MaxTableLen
        /\ MaxTableLen >= 2

C3_ResetRestartsAtFirstRecord ==
    \A S \in Entities :
        returned[S] # <<>> =>
            /\ returned[S][1] = first[S]
            /\ Carries(returned[S][1], S, 1)

\* S was advanced, a reset cleared its offset, and S was advanced again
C3_Witness ==
    \E S \in Entities :
        /\ cleared.offsets[S] > 0
        /\ returned[S] # <<>>
        /\ IsAdvance(last)

\* C4: a reset with no source argument sets the offset of every source to 0:
\* whatever offsets two distinct sources S and T had been advanced to, the next
\* advance of S and the next advance of T each return the first record of
\* their own table.
C4_ResetClearsEverySource ==
    /\ (IsReset(last) /\ last.source = NoArg) =>
           \A S \in Entities : offsets[S] = 0
    /\ cleared.by = NoArg =>
           \A S \in Entities :
               returned[S] # <<>> => Carries(returned[S][1], S, 1)

\* Two sources at different non-zero offsets were reset together and each has
\* been advanced once since
C4_Witness ==
    \E S \in Entities, T \in Entities :
        /\ S # T
        /\ cleared.by = NoArg
        /\ cleared.offsets[S] > 0
        /\ cleared.offsets[T] > cleared.offsets[S]
        /\ Len(returned[S]) = 1
        /\ Len(returned[T]) = 1

\* C5: once the advances of S have returned every record of its table, every
\* further advance of S with no reset in between is answered FAILURE
\* NO_PATH_FOUND (Exhausted): no record is returned and the offset neither
\* wraps to 0 nor moves.
C5_ExhaustedStaysExhausted ==
    [][ \A S \in Entities :
          ( /\ IsAdvance(last')
            /\ requested(last'.source) = S
            /\ Len(returned[S]) = Len(corr[S]) )
          => ( /\ reply'.head = "FAILURE"
               /\ reply'.reason = "NO_PATH_FOUND"
               /\ returned'[S] = returned[S]
               /\ offsets'[S] = offsets[S] ) ]_vars

\* Every record of a table of two or more was returned, and the next advance
\* was answered Exhausted
C5_Witness ==
    \E S \in Entities :
        /\ IsAdvance(last)
        /\ requested(last.source) = S
        /\ Len(corr[S]) >= 2
        /\ Len(returned[S]) = Len(corr[S])
        /\ reply = make_failure("NO_PATH_FOUND")

\* C6 (as claimed): a reset given a specific source S sets only the offset of S
\* back to 0 and leaves the stored offset of every other source T unchanged.
C6_KeyedResetKeepsOthers ==
    (IsReset(last) /\ ~is_empty(last.source)) =>
        /\ offsets[requested(last.source)] = 0
        /\ \A T \in Entities \ {requested(last.source)} :
               offsets[T] = cleared.offsets[T]

\* C6 (amended): a reset request that names a source S sets the offset of S
\* back to 0, and with it the offset of every other source: the handler does
\* not read the request's arguments.
C6_KeyedResetClearsEverySource ==
    (IsReset(last) /\ ~is_empty(last.source)) =>
        \A T \in Entities : offsets[T] = 0

\* A reset that names S found another source T advanced
C6_Witness ==
    /\ IsReset(last)
    /\ ~is_empty(last.source)
    /\ \E T \in Entities \ {requested(last.source)} : cleared.offsets[T] > 0

(***************************************************************************)
(* The engine (self.CA): discovery of the targets or sources of an entity. *)
(***************************************************************************)
\* Every edge incident to the entity whose relation is the filter, in the
\* store's order: edges_from when the entity is the causal source of the
\* relation, edges_to when it is its causal target
find_causality_targets(param) ==
    LET incident == IF param.rel \in InverseRelations
                    THEN edges_to(param.id) ELSE edges_from(param.id)
        hit(e) == e.rel = param.rel
    IN  SelectSeq(incident, hit)

(***************************************************************************)
(* make_indra_json: the view of a result.                                  *)
(***************************************************************************)
\* str.upper() on the relation names
upper ==
    ("phosphorylates" :> "PHOSPHORYLATES")
    @@ ("dephosphorylates" :> "DEPHOSPHORYLATES")
    @@ ("upregulates-expression" :> "UPREGULATES-EXPRESSION")
    @@ ("downregulates-expression" :> "DOWNREGULATES-EXPRESSION")
    @@ ("modulates" :> "MODULATES")
    @@ ("is-phosphorylated-by" :> "IS-PHOSPHORYLATED-BY")
    @@ ("is-dephosphorylated-by" :> "IS-DEPHOSPHORYLATED-BY")
    @@ ("expression-is-up" :> "EXPRESSION-IS-UP")
    @@ ("expression-is-upregulated-by" :> "EXPRESSION-IS-UPREGULATED-BY")
    @@ ("expression-is-downregulated-by" :> "EXPRESSION-IS-DOWNREGULATED-BY")
    @@ ("" :> "")

indra_relation_map ==
    ("PHOSPHORYLATES" :> "Phosphorylation")
    @@ ("IS-PHOSPHORYLATED-BY" :> "Phosphorylation")
    @@ ("IS-DEPHOSPHORYLATED-BY" :> "Dephosphorylation")
    @@ ("UPREGULATES-EXPRESSION" :> "IncreaseAmount")
    @@ ("EXPRESSION-IS-UPREGULATED-BY" :> "IncreaseAmount")
    @@ ("DOWNREGULATES-EXPRESSION" :> "DecreaseAmount")
    @@ ("EXPRESSION-IS-DOWNREGULATED-BY" :> "DecreaseAmount")

\* Faulty variant: the endpoints are never swapped
contains_IS_never(rel) == FALSE

\* 'IS' in rel
contains_IS(rel) ==
    rel \in {"IS-PHOSPHORYLATED-BY", "IS-DEPHOSPHORYLATED-BY", "EXPRESSION-IS-UP",
             "EXPRESSION-IS-UPREGULATED-BY", "EXPRESSION-IS-DOWNREGULATED-BY"}

\* 'PHOSPHO' in rel
contains_PHOSPHO(rel) ==
    rel \in {"PHOSPHORYLATES", "DEPHOSPHORYLATES", "IS-PHOSPHORYLATED-BY",
             "IS-DEPHOSPHORYLATED-BY"}

NoView ==
    [error |-> "", type |-> "", subj_key |-> "", subj |-> [name |-> "", mods |-> <<>>],
     obj_key |-> "", obj |-> [name |-> ""], residue |-> "", position |-> ""]

\* The modification sites of the object side and of the subject side of an
\* edge: of id2 and id1, swapped when the relation reads object-to-subject
object_mods(e) == IF contains_IS(upper[e.rel]) THEN e.mods1 ELSE e.mods2
subject_mods(e) == IF contains_IS(upper[e.rel]) THEN e.mods2 ELSE e.mods1

\* Faulty variant: the last site of the object side is surfaced
make_indra_json_last_site(causality) ==
    LET rel == upper[causality.rel]
        swapped == contains_IS(rel)
        id_s == IF swapped THEN causality.id2 ELSE causality.id1
        id_t == IF swapped THEN causality.id1 ELSE causality.id2
        mods_t == object_mods(causality)
    IN  IF rel \notin DOMAIN indra_relation_map
        THEN [NoView EXCEPT !.error = "KeyError"]
        ELSE IF mods_t = <<>>
        THEN [NoView EXCEPT !.error = "IndexError"]
        ELSE [error |-> "",
              type |-> indra_relation_map[rel],
              subj_key |-> IF contains_PHOSPHO(rel) THEN "enz" ELSE "subj",
              subj |-> [name |-> id_s, mods |-> subject_mods(causality)],
              obj_key |-> IF contains_PHOSPHO(rel) THEN "sub" ELSE "obj",
              obj |-> [name |-> id_t],
              residue |-> mods_t[Len(mods_t)].residue,
              position |-> mods_t[Len(mods_t)].position]

\* The view, or the exception the construction raises
make_indra_json(causality) ==
    LET rel == upper[causality.rel]
        swapped == contains_IS(rel)
        id_s == IF swapped THEN causality.id2 ELSE causality.id1
        mods_s == IF swapped THEN causality.mods2 ELSE causality.mods1
        id_t == IF swapped THEN causality.id1 ELSE causality.id2
        mods_t == IF swapped THEN causality.mods1 ELSE causality.mods2
    IN  IF rel \notin DOMAIN indra_relation_map
        THEN [NoView EXCEPT !.error = "KeyError"]
        ELSE IF mods_t = <<>>
        THEN [NoView EXCEPT !.error = "IndexError"]
        ELSE [error |-> "",
              type |-> indra_relation_map[rel],
              subj_key |-> IF contains_PHOSPHO(rel) THEN "enz" ELSE "subj",
              subj |-> [name |-> id_s, mods |-> mods_s],
              obj_key |-> IF contains_PHOSPHO(rel) THEN "sub" ELSE "obj",
              obj |-> [name |-> id_t],
              residue |-> mods_t[1].residue,
              position |-> mods_t[1].position]

\* Faulty variant: a view of the first result only
indra_json_of_first(result) == <<make_indra_json(result[1])>>

\* [make_indra_json(r) for r in result]
indra_json_of(result) == [i \in 1..Len(result) |-> make_indra_json(result[i])]

\* The first exception of a list of views (""  when none raises)
first_error(views) ==
    IF \A i \in 1..Len(views) : views[i].error = "" THEN ""
    ELSE LET k == CHOOSE i \in 1..Len(views) :
                      /\ views[i].error # ""
                      /\ \A j \in 1..(i - 1) : views[j].error = ""
         IN  views[k].error

\* A handler that raises: the exception leaves the handler
raised(exception, provenance) ==
    [NoReply EXCEPT !.head = "ERROR", !.reason = exception,
                    !.provenance = provenance]

(***************************************************************************)
(* FIND-CAUSAL-PATH.                                                       *)
(***************************************************************************)
\* Faulty variant: the result of the engine is not checked
path_always_found(result) == FALSE

\* `not result`
path_not_found(result) == result = NotFound

find_causal_path(source_arg, target_arg, direction) ==
    IF is_empty(source_arg) \/ is_empty(target_arg)
    THEN Queried(make_failure("MISSING_MECHANISM"), {}, <<>>)
    ELSE LET target_names == _get_kqml_names(target_arg)
             source_names == _get_kqml_names(source_arg)
         IN  IF names_raise(target_arg) \/ names_raise(source_arg)
             THEN Queried(propagated("AttributeError"), {}, <<>>)
             ELSE IF target_names = <<>> \/ source_names = <<>>
             THEN Queried(make_failure("NO_PATH_FOUND"), {}, <<>>)
             ELSE LET source_name == first_name(source_names)
                      target_name == first_name(target_names)
                      target == [id |-> target_name, pSite |-> ""]
                      source == [id |-> source_name, pSite |-> ""]
                      result == find_causality([source |-> source,
                                                target |-> target,
                                                direction |-> direction])
                      indra_json == <<make_indra_json(result)>>
                  IN  IF ~available
                      THEN Queried(propagated("StoreUnavailable"),
                                   {"find_causality"}, <<>>)
                      ELSE IF path_not_found(result)
                      THEN Queried(make_failure("NO_PATH_FOUND"),
                                   {"find_causality"}, <<>>)
                      ELSE IF first_error(indra_json) # ""
                      THEN Queried(raised(first_error(indra_json), 0),
                                   {"find_causality"}, <<result>>)
                      ELSE Queried([NoReply EXCEPT !.head = "SUCCESS",
                                                   !.paths = indra_json,
                                                   !.provenance = 1],
                                   {"find_causality"}, <<result>>)

\* Faulty variant: the path handler clears the cursor on its way
respond_find_causal_path_clearing(source_arg, target_arg, direction) ==
    LET out == find_causal_path(source_arg, target_arg, direction)
    IN  /\ last' = Request("FIND-CAUSAL-PATH", source_arg, target_arg,
                           direction, "")
        /\ reply' = out.reply
        /\ ca_calls' = out.ca_calls
        /\ ca_found' = out.found
        /\ offsets' = reset_indices(offsets)
        /\ UNCHANGED <<store, returned, first, cleared, conc>>

respond_find_causal_path(source_arg, target_arg, direction) ==
    LET out == find_causal_path(source_arg, target_arg, direction)
    IN  /\ last' = Request("FIND-CAUSAL-PATH", source_arg, target_arg,
                           direction, "")
        /\ reply' = out.reply
        /\ ca_calls' = out.ca_calls
        /\ ca_found' = out.found
        /\ UNCHANGED <<store, offsets, returned, first, cleared, conc>>

(***************************************************************************)
(* FIND-CAUSALITY-TARGET and FIND-CAUSALITY-SOURCE.                        *)
(***************************************************************************)
\* rel_map of respond_find_causality_target
rel_map_target ==
    ("phosphorylation" :> "phosphorylates")
    @@ ("dephosphorylation" :> "dephosphorylates")
    @@ ("activate" :> "upregulates-expression")
    @@ ("increase" :> "upregulates-expression")
    @@ ("inhibit" :> "downregulates-expression")
    @@ ("decrease" :> "downregulates-expression")
    @@ ("modulate" :> "modulates")

\* rel_map of respond_find_causality_source
rel_map_source ==
    ("phosphorylation" :> "is-phosphorylated-by")
    @@ ("dephosphorylation" :> "is-dephosphorylated-by")
    @@ ("activate" :> "expression-is-up")
    @@ ("increase" :> "upregulates-expression")
    @@ ("inhibit" :> "downregulates-expression")
    @@ ("decrease" :> "downregulates-expression")
    @@ ("modulate" :> "modulates")

\* content.gets('TYPE') of a request that carries no TYPE
NoType == "nil"

\* The relation verbs a request may carry
Verbs == DOMAIN rel_map_target \cup {"activation", "activates", NoType}

\* Faulty variant: a verb that has no entry is passed on as it is
lookup_or_verb(rel_map, rel) ==
    IF rel \in DOMAIN rel_map
    THEN [ok |-> TRUE, rel_verb |-> rel_map[rel]]
    ELSE [ok |-> TRUE, rel_verb |-> rel]

\* `try: rel_verb = rel_map[rel]  except: ...`
lookup(rel_map, rel) ==
    IF rel \in DOMAIN rel_map
    THEN [ok |-> TRUE, rel_verb |-> rel_map[rel]]
    ELSE [ok |-> FALSE, rel_verb |-> ""]

\* The common body of the two discovery handlers: entity_arg is the SOURCE
\* argument of FIND-CAUSALITY-TARGET, the TARGET argument of
\* FIND-CAUSALITY-SOURCE
find_causality_with(rel_map, entity_arg, rel) ==
    IF is_empty(entity_arg)
    THEN Queried(make_failure("MISSING_MECHANISM"), {}, <<>>)
    ELSE LET names == _get_kqml_names(entity_arg)
         IN  IF names_raise(entity_arg)
             THEN Queried(propagated("AttributeError"), {}, <<>>)
             ELSE IF names = <<>>
             THEN Queried(make_failure("MISSING_MECHANISM"), {}, <<>>)
             ELSE LET name == first_name(names)
                      found == lookup(rel_map, rel)
                      param == [id |-> name, pSite |-> " ", rel |-> found.rel_verb]
                      result == find_causality_targets(param)
                      indra_json == indra_json_of(result)
                  IN  IF ~found.ok
                      THEN Queried(make_failure("MISSING_MECHANISM"), {}, <<>>)
                      ELSE IF ~available
                      THEN Queried(propagated("StoreUnavailable"),
                                   {"find_causality_targets"}, <<>>)
                      ELSE IF result = <<>>
                      THEN Queried(make_failure("NO_PATH_FOUND"),
                                   {"find_causality_targets"}, result)
                      ELSE IF first_error(indra_json) # ""
                      THEN Queried(raised(first_error(indra_json), Len(result)),
                                   {"find_causality_targets"}, result)
                      ELSE Queried([NoReply EXCEPT !.head = "SUCCESS",
                                                   !.paths = indra_json,
                                                   !.provenance = Len(result)],
                                   {"find_causality_targets"}, result)

find_causality_target(target_arg, rel) ==
    find_causality_with(rel_map_target, target_arg, rel)

find_causality_source(source_arg, rel) ==
    find_causality_with(rel_map_source, source_arg, rel)

respond_find_causality_target(target_arg, rel) ==
    LET out == find_causality_target(target_arg, rel)
    IN  /\ last' = Request("FIND-CAUSALITY-TARGET", target_arg, NoArg,
                           NoDirection, rel)
        /\ reply' = out.reply
        /\ ca_calls' = out.ca_calls
        /\ ca_found' = out.found
        /\ UNCHANGED <<store, offsets, returned, first, cleared, conc>>

respond_find_causality_source(source_arg, rel) ==
    LET out == find_causality_source(source_arg, rel)
    IN  /\ last' = Request("FIND-CAUSALITY-SOURCE", NoArg, source_arg,
                           NoDirection, rel)
        /\ reply' = out.reply
        /\ ca_calls' = out.ca_calls
        /\ ca_found' = out.found
        /\ UNCHANGED <<store, offsets, returned, first, cleared, conc>>

(***************************************************************************)
(* The module serving path and discovery queries over every store of up   *)
(* to MaxEdges edges.                                                      *)
(***************************************************************************)
InitPath ==
    /\ graph \in Graphs
    /\ corr \in { c \in CorrelationStores :
                     \A s \in CorrelatedSources : Len(c[s]) = 1 }
    /\ InitEngine

\* The agent arguments of the queries: absent, or one named agent
QueryArgs == {NoArg} \cup { Agents(<<n>>) : n \in Entities }

NextPath ==
    \E source_arg \in QueryArgs, target_arg \in QueryArgs,
       direction \in Directions \cup {NoDirection} :
        respond_find_causal_path(source_arg, target_arg, direction)

NextDiscovery ==
    \/ \E target_arg \in QueryArgs, rel \in Verbs :
            respond_find_causality_target(target_arg, rel)
    \/ \E source_arg \in QueryArgs, rel \in Verbs :
            respond_find_causality_source(source_arg, rel)

SpecDiscovery == InitPath /\ [][NextDiscovery]_vars

SpecPath == InitPath /\ [][NextPath]_vars

(***************************************************************************)
(* Properties of the path and discovery queries.                           *)
(***************************************************************************)
\* The store holds an edge whose causal source is A and causal target is B
HasEdge(A, B) ==
    \E i \in 1..Len(graph) :
        edge_source(graph[i]) = A /\ edge_target(graph[i]) = B

\* e is an edge of the store from A to B
IsEdgeFromTo(e, A, B) ==
    /\ \E i \in 1..Len(graph) : graph[i] = e
    /\ edge_source(e) = A
    /\ edge_target(e) = B

\* The last request was a path query for source A and target B
IsPathQuery(req, A, B) ==
    /\ req.task = "FIND-CAUSAL-PATH"
    /\ req.source = Agents(<<A>>)
    /\ req.target = Agents(<<B>>)

\* The last request was a discovery query with a named entity
IsDiscovery(req) ==
    \/ req.task = "FIND-CAUSALITY-TARGET" /\ ~is_empty(req.source)
    \/ req.task = "FIND-CAUSALITY-SOURCE" /\ ~is_empty(req.target)

\* The vocabulary table of a discovery query
VerbTable(req) ==
    IF req.task = "FIND-CAUSALITY-TARGET" THEN rel_map_target ELSE rel_map_source

\* C7: for all entities A and B with no edge from A to B and none from B to
\* A, resolve(A, B, d) is NotFound for each direction d, and the handler of
\* FIND-CAUSAL-PATH replies FAILURE NO_PATH_FOUND.
C7_NoEdgeNoPath ==
    \A A \in Entities, B \in Entities :
        (~HasEdge(A, B) /\ ~HasEdge(B, A)) =>
            /\ \A d \in Directions : resolve(A, B, d) = NotFound
            /\ IsPathQuery(last, A, B) =>
                   /\ reply = make_failure("NO_PATH_FOUND")
                   /\ ca_calls = {"find_causality"}
                   /\ ca_found = <<>>

\* A path query between two entities that no edge links, in a store that
\* holds edges, has been answered
C7_Witness ==
    \E A \in Entities, B \in Entities :
        /\ A # B
        /\ ~HasEdge(A, B) /\ ~HasEdge(B, A)
        /\ Len(graph) = MaxEdges
        /\ IsPathQuery(last, A, B)
        /\ last.direction = "REVERSE"
        /\ reply = make_failure("NO_PATH_FOUND")

\* C8: for all entities A and B with an edge from A to B and none from B to
\* A, resolve(A, B, FORWARD) and resolve(A, B, EITHER) return an edge of the
\* store from A to B, and resolve(A, B, REVERSE) is NotFound.
C8_ForwardEdgeOnly ==
    \A A \in Entities, B \in Entities :
        (HasEdge(A, B) /\ ~HasEdge(B, A)) =>
            /\ IsEdgeFromTo(resolve(A, B, "FORWARD"), A, B)
            /\ IsEdgeFromTo(resolve(A, B, "EITHER"), A, B)
            /\ resolve(A, B, "REVERSE") = NotFound
            /\ IsPathQuery(last, A, B) =>
                   IF last.direction = "REVERSE"
                   THEN ca_found = <<>> /\ reply = make_failure("NO_PATH_FOUND")
                   ELSE /\ Len(ca_found) = 1
                        /\ IsEdgeFromTo(ca_found[1], A, B)
                        /\ reply.head # "FAILURE"

\* A FORWARD path query along the only edge between two entities has been
\* answered with that edge
C8_Witness ==
    \E A \in Entities, B \in Entities :
        /\ HasEdge(A, B) /\ ~HasEdge(B, A)
        /\ IsPathQuery(last, A, B)
        /\ last.direction = "FORWARD"
        /\ reply.head = "SUCCESS"
        /\ reply.paths[1].subj.name = A
        /\ reply.paths[1].obj.name = B

\* C9: when the store holds an edge from source to target and an edge from
\* target to source, resolve(source, target, EITHER) returns an edge from
\* source to target, whatever the order in which the store holds the edges.
C9_EitherPrefersForward ==
    \A A \in Entities, B \in Entities :
        (HasEdge(A, B) /\ HasEdge(B, A)) =>
            /\ IsEdgeFromTo(resolve(A, B, "EITHER"), A, B)
            /\ resolve(A, B, "EITHER") = resolve(A, B, "FORWARD")
            /\ (IsPathQuery(last, A, B) /\ last.direction = "EITHER") =>
                   /\ Len(ca_found) = 1
                   /\ IsEdgeFromTo(ca_found[1], A, B)

\* The store holds the edge from target to source before the edge from source
\* to target, and an EITHER query has been answered with the latter
C9_Witness ==
    \E A \in Entities, B \in Entities :
        /\ Len(graph) >= 2
        /\ edge_source(graph[1]) = B /\ edge_target(graph[1]) = A
        /\ edge_source(graph[2]) = A /\ edge_target(graph[2]) = B
        /\ IsPathQuery(last, A, B)
        /\ last.direction = "EITHER"
        /\ ca_found = <<graph[2]>>

\* C10: a discovery request whose relation verb is not a key of the
\* vocabulary table of its handler ends with FAILURE MISSING_MECHANISM and
\* the engine is not invoked; the failure of a known verb with no qualifying
\* edge is FAILURE NO_PATH_FOUND, after the engine was invoked.
C10_UnknownVerbIsMissingMechanism ==
    IsDiscovery(last) =>
        /\ last.type \notin DOMAIN VerbTable(last) =>
               /\ reply = make_failure("MISSING_MECHANISM")
               /\ ca_calls = {}
        /\ reply = make_failure("NO_PATH_FOUND") =>
               /\ last.type \in DOMAIN VerbTable(last)
               /\ ca_calls = {"find_causality_targets"}
               /\ ca_found = <<>>
        /\ (last.type \in DOMAIN VerbTable(last)) =>
               reply # make_failure("MISSING_MECHANISM")

\* A discovery request with the verb "activation" on an entity that has
\* edges has been answered MISSING_MECHANISM
C10_Witness ==
    /\ IsDiscovery(last)
    /\ last.task = "FIND-CAUSALITY-TARGET"
    /\ last.type = "activation"
    /\ edges_from(requested(last.source)) # <<>>
    /\ reply = make_failure("MISSING_MECHANISM")

\* The canonical relation of the verbs "activate" and "increase" in the query
\* role of a discovery request: INCREASES_AMOUNT when the causal source is
\* given, EXPRESSION_IS_UP when the causal target is given
IncreaseRelation(req) ==
    IF req.task = "FIND-CAUSALITY-TARGET"
    THEN "upregulates-expression"
    ELSE "expression-is-up"

\* C11: the verbs "activate" and "increase" are mapped to the same canonical
\* relation in each query role: upregulates-expression when the source is
\* given, expression-is-up when the target is given; the engine is queried
\* with that relation.
C11_ActivateIncreaseSameRelation ==
    (IsDiscovery(last) /\ last.type \in {"activate", "increase"}) =>
        /\ lookup(VerbTable(last), last.type)
               = [ok |-> TRUE, rel_verb |-> IncreaseRelation(last)]
        /\ \A i \in 1..Len(ca_found) : ca_found[i].rel = IncreaseRelation(last)

DiscoveryEntity(req) ==
    IF req.task = "FIND-CAUSALITY-TARGET"
    THEN requested(req.source) ELSE requested(req.target)

\* The edges of the store, in its order, that are incident to entity in the
\* role the relation rel gives it (its causal source, or for an
\* inverse-phrased relation its causal target) and whose relation is rel
Qualifying(entity, rel) ==
    LET hit(e) ==
            /\ e.rel = rel
            /\ IF rel \in InverseRelations
               THEN edge_target(e) = entity ELSE edge_source(e) = entity
    IN  SelectSeq(graph, hit)

\* C13: in discovery mode the result holds every edge incident to the named
\* entity whose relation equals the filter, and no other edge, in the order
\* of the store; a reply with paths carries one path per such edge, in that
\* order.
C13_DiscoveryReturnsEveryMatch ==
    (IsDiscovery(last) /\ last.type \in DOMAIN VerbTable(last)) =>
        LET q == Qualifying(DiscoveryEntity(last), VerbTable(last)[last.type])
        IN  /\ ca_found = q
            /\ (q = <<>>) <=> (reply = make_failure("NO_PATH_FOUND"))
            /\ reply.head = "SUCCESS" =>
                   /\ Len(reply.paths) = Len(q)
                   /\ \A i \in 1..Len(q) :
                          /\ reply.paths[i].subj.name = edge_source(q[i])
                          /\ reply.paths[i].obj.name = edge_target(q[i])

\* A discovery request matched two edges that the store holds in an order
\* that is not the alphabetical one, and the reply carries both in the
\* store's order
C13_Witness ==
    /\ IsDiscovery(last)
    /\ last.task = "FIND-CAUSALITY-TARGET"
    /\ reply.head = "SUCCESS"
    /\ Len(ca_found) = 2
    /\ ca_found = graph
    /\ Len(reply.paths) = 2
    /\ reply.paths[1].obj.name = "BRAF"
    /\ reply.paths[2].obj.name = "AKT1"

(***************************************************************************)
(* Frame properties of the cursor.                                         *)
(***************************************************************************)
\* C14: in every sequence of advances and resets the stored offset of a
\* source never decreases between two resets: a step that is not a reset
\* changes an offset only by adding exactly 1 to the offset of the source the
\* advance names, and only a reset lowers an offset.
C14_OffsetsOnlyIncreaseBetweenResets ==
    [][ \A S \in Entities :
          /\ ~IsReset(last') => offsets'[S] >= offsets[S]
          /\ (~IsReset(last') /\ offsets'[S] # offsets[S]) =>
                 /\ IsAdvance(last')
                 /\ requested(last'.source) = S
                 /\ offsets'[S] = offsets[S] + 1
          /\ offsets'[S] < offsets[S] => (IsReset(last') /\ offsets'[S] = 0) ]_vars

\* A source was advanced, reset, and advanced again through its whole table
C14_Witness ==
    \E S \in Entities :
        /\ cleared.offsets[S] >= 1
        /\ IsAdvance(last)
        /\ requested(last.source) = S
        /\ offsets[S] = MaxTableLen
        /\ Len(returned[S]) = MaxTableLen

\* C15: an advance of a source S leaves the stored offset of every other
\* source T unchanged and returns nothing for T; what it returns for S is the
\* record at the offset of S alone, so the records returned for a source are
\* the same whatever advances of other sources are interleaved with them.
C15_AdvanceLeavesOtherSources ==
    [][ IsAdvance(last') =>
          LET S == requested(last'.source)
          IN  /\ \A T \in Entities \ {S} :
                     /\ offsets'[T] = offsets[T]
                     /\ returned'[T] = returned[T]
              /\ reply'.head = "SUCCESS" =>
                     /\ Carries(reply', S, offsets[S] + 1)
                     /\ returned'[S] = Append(returned[S], Returned(reply')) ]_vars

\* A source was advanced to the end of its table while another source stood
\* in the middle of its own
C15_Witness ==
    \E S \in Entities, T \in Entities :
        /\ S # T
        /\ IsAdvance(last)
        /\ requested(last.source) = S
        /\ reply.head = "SUCCESS"
        /\ offsets[S] = MaxTableLen
        /\ offsets[T] = 1
        /\ Len(returned[T]) = 1
        /\ Len(corr[T]) = MaxTableLen

(***************************************************************************)
(* The module serving cursor requests and queries together, over a store   *)
(* whose correlated sources have full tables.                              *)
(***************************************************************************)
\* The agent arguments of the requests served together
ServedArgs == {NoArg} \cup { Agents(<<n>>) : n \in CorrelatedSources }

\* The directions and verbs of the queries served together: one that is
\* absent or unknown, one that is known
ServedDirections == {NoDirection, "REVERSE"}
ServedVerbs == {"activation", "phosphorylation"}

InitServing ==
    /\ graph \in ConcGraphs
    /\ corr \in { c \in CorrelationStores :
                     \A s \in CorrelatedSources : Len(c[s]) = MaxTableLen }
    /\ InitEngine

NextServing ==
    \/ \E source_arg \in ServedArgs : respond_dataset_correlated_entity(source_arg)
    \/ respond_reset_causality_indices(NoArg)
    \/ \E source_arg \in ServedArgs, target_arg \in ServedArgs,
          direction \in ServedDirections :
            respond_find_causal_path(source_arg, target_arg, direction)
    \/ \E target_arg \in ServedArgs, rel \in ServedVerbs :
            respond_find_causality_target(target_arg, rel)
    \/ \E source_arg \in ServedArgs, rel \in ServedVerbs :
            respond_find_causality_source(source_arg, rel)

SpecServing == InitServing /\ [][NextServing]_vars

IsQuery(req) ==
    req.task \in {"FIND-CAUSAL-PATH", "FIND-CAUSALITY-TARGET",
                  "FIND-CAUSALITY-SOURCE"}

\* C16: a path query or a discovery query, whether it succeeds or fails,
\* leaves every cursor offset unchanged; only an advance and a reset change
\* the cursor state.
C16_QueriesLeaveCursor ==
    [][ /\ IsQuery(last') => offsets' = offsets
        /\ offsets' # offsets =>
               (ca_calls' \in {{"find_next_correlation"}, {"reset_indices"}}) ]_vars

\* A path query was answered with a path while the cursor of one source stood
\* past the start of its table and the cursor of another at its end
C16_Witness ==
    /\ last.task = "FIND-CAUSAL-PATH"
    /\ reply.head = "SUCCESS"
    /\ offsets["AKT1"] = 1
    /\ offsets["BRAF"] = MaxTableLen

(***************************************************************************)
(* Properties of the view of a path.                                       *)
(***************************************************************************)
\* C17: the view of a matched edge surfaces as residue and position the first
\* entry of the object-side modification sites of that edge and no other: the
\* further sites of the object side appear nowhere in the view (the object
\* carries its name only, the subject its own sites), and the sites are those
\* of the edge.
C17_ViewSurfacesFirstSite ==
    (last.task = "FIND-CAUSAL-PATH" /\ reply.head = "SUCCESS") =>
        LET e == ca_found[1]
            view == reply.paths[1]
            sites == object_mods(e)
        IN  /\ Len(reply.paths) = 1
            /\ \E i \in 1..Len(graph) : graph[i] = e
            /\ sites # <<>>
            /\ view.residue = sites[1].residue
            /\ view.position = sites[1].position
            /\ DOMAIN view.obj = {"name"}
            /\ view.subj.mods = subject_mods(e)
            /\ \A k \in 2..Len(sites) :
                   /\ sites[k] # ModSite(view.residue, view.position)
                   /\ \A j \in 1..Len(view.subj.mods) : view.subj.mods[j] # sites[k]

\* A path was found along an edge whose object side has two sites, and the
\* view carries the first of them
C17_Witness ==
    /\ last.task = "FIND-CAUSAL-PATH"
    /\ reply.head = "SUCCESS"
    /\ Len(object_mods(ca_found[1])) = 2
    /\ reply.paths[1].residue = "S"
    /\ reply.paths[1].position = "133"

\* C18: in the view of a discovery result the causal actor is the subject.
\* For a relation that reads from the causal source (phosphorylates) the
\* queried entity is the subject (the enzyme of a phosphorylation) and the
\* discovered entity the object (the substrate); for an inverse-phrased
\* relation (is-phosphorylated-by) the endpoints are swapped: the discovered
\* entity is the subject and the queried entity the object.
C18_CausalActorIsSubject ==
    (IsDiscovery(last) /\ reply.head = "SUCCESS") =>
        \A i \in 1..Len(reply.paths) :
            LET e == ca_found[i]
                view == reply.paths[i]
                queried == DiscoveryEntity(last)
                discovered == e.id2
            IN  /\ e.id1 = queried
                /\ view.subj.name = edge_source(e)
                /\ view.obj.name = edge_target(e)
                /\ IF e.rel \in InverseRelations
                   THEN view.subj.name = discovered /\ view.obj.name = queried
                   ELSE view.subj.name = queried /\ view.obj.name = discovered
                /\ IF e.rel \in {"phosphorylates", "is-phosphorylated-by",
                                 "is-dephosphorylated-by"}
                   THEN view.subj_key = "enz" /\ view.obj_key = "sub"
                   ELSE view.subj_key = "subj" /\ view.obj_key = "obj"

\* The sources of the phosphorylation of BRAF were asked for, and the view
\* has the discovered MAPK1 as the enzyme and BRAF as the substrate
C18_Witness ==
    /\ IsDiscovery(last)
    /\ last.task = "FIND-CAUSALITY-SOURCE"
    /\ last.type = "phosphorylation"
    /\ DiscoveryEntity(last) = "BRAF"
    /\ reply.head = "SUCCESS"
    /\ ca_found[1].rel = "is-phosphorylated-by"
    /\ reply.paths[1].subj_key = "enz"
    /\ reply.paths[1].subj.name = "MAPK1"
    /\ reply.paths[1].obj.name = "BRAF"
    /\ reply.paths[1].position = "601"

\* C19: a path query that carries no direction is resolved exactly as the
\* same query with direction EITHER: for every store, source and target the
\* resolver gives the same result, and the handler the same reply.
C19_NoDirectionIsEither ==
    /\ \A A \in Entities, B \in Entities :
           resolve(A, B, NoDirection) = resolve(A, B, "EITHER")
    /\ (last.task = "FIND-CAUSAL-PATH" /\ last.direction = NoDirection) =>
           LET either == find_causal_path(last.source, last.target, "EITHER")
           IN  /\ reply = either.reply
               /\ ca_found = either.found
               /\ ca_calls = either.ca_calls

\* A path query with no direction was answered with an edge that runs from
\* the target to the source, which only REVERSE or EITHER can match
C19_Witness ==
    \E A \in Entities, B \in Entities :
        /\ IsPathQuery(last, A, B)
        /\ last.direction = NoDirection
        /\ ~HasEdge(A, B)
        /\ reply.head = "SUCCESS"
        /\ IsEdgeFromTo(ca_found[1], B, A)

(***************************************************************************)
(* The cursor of a source the correlation data does not cover.             *)
(***************************************************************************)
\* C20: for a source whose correlation table is empty, an advance, the very
\* first included, returns Exhausted as an ordinary result: the handler
\* replies FAILURE NO_PATH_FOUND, nothing is raised, no record is returned
\* and the offset of the source stays 0.
C20_EmptyTableExhaustedAtOnce ==
    \A S \in Entities :
        (IsAdvance(last) /\ requested(last.source) = S /\ corr[S] = <<>>) =>
            /\ find_next_correlation(offsets, S).res = Exhausted
            /\ reply = make_failure("NO_PATH_FOUND")
            /\ reply.head # "ERROR"
            /\ ca_calls = {"find_next_correlation"}
            /\ first[S] = NoRecord
            /\ returned[S] = <<>>
            /\ offsets[S] = 0

\* The first advance of a source the correlation data does not cover was
\* answered, in a store that has records for another source
C20_Witness ==
    \E S \in Entities \ CorrelatedSources, T \in CorrelatedSources :
        /\ IsAdvance(last)
        /\ requested(last.source) = S
        /\ corr[S] = <<>>
        /\ Len(corr[T]) = MaxTableLen
        /\ first[T] # NoRecord
        /\ reply = make_failure("NO_PATH_FOUND")

(***************************************************************************)
(* The module serving requests while the store comes and goes.             *)
(***************************************************************************)
\* The store becomes unavailable, or available again
store_changes(up) ==
    /\ available # up
    /\ available' = up
    /\ UNCHANGED <<graph, corr, offsets, last, reply, ca_calls, ca_found,
                   returned, first, cleared, conc>>

NextOutage ==
    \/ NextServing
    \/ \E up \in BOOLEAN : store_changes(up)

SpecOutage == InitServing /\ [][NextOutage]_vars

\* The request reaches the engine: its arguments name the entities the
\* handler needs, and its verb, if it has one, is known
ReachesEngine(req) ==
    \/ IsAdvance(req)
    \/ /\ req.task = "FIND-CAUSAL-PATH"
       /\ ~is_empty(req.source) /\ ~is_empty(req.target)
    \/ IsDiscovery(req) /\ req.type \in DOMAIN VerbTable(req)

\* C21: when a store query fails during an advance or a resolve, the
\* operation ends in the outcome StoreUnavailable, which is neither NotFound
\* nor Exhausted: the request is not answered NO_PATH_FOUND, no record is
\* returned and the cursor is not moved; and no request is answered
\* StoreUnavailable while the store answers.
C21_StoreFailureIsDistinct ==
    [][ (available' = available /\ ReachesEngine(last')) =>
          IF available
          THEN reply'.reason # "StoreUnavailable"
          ELSE /\ reply' = propagated("StoreUnavailable")
               /\ reply' # make_failure("NO_PATH_FOUND")
               /\ reply'.head # "FAILURE"
               /\ ca_calls' # {}
               /\ ca_found' = <<>>
               /\ offsets' = offsets
               /\ returned' = returned ]_vars

\* While the store was unavailable, a path query between two entities that no
\* edge links ended in StoreUnavailable, with the cursor of a source at the
\* end of its table
C21_Witness ==
    \E A \in Entities, B \in Entities :
        /\ ~available
        /\ IsPathQuery(last, A, B)
        /\ ~HasEdge(A, B) /\ ~HasEdge(B, A)
        /\ reply = propagated("StoreUnavailable")
        /\ offsets["AKT1"] = MaxTableLen

(***************************************************************************)
(* The gene handlers: FIND-CELLULAR-LOCATION, FIND-MUTEX and               *)
(* FIND-MUTATION-SIGNIFICANCE, and the engine data they are tested with.   *)
(***************************************************************************)
\* A request of the gene handlers: gene is its GENE or GENES argument
GeneRequest(task, gene, disease) ==
    [task |-> task, source |-> NoArg, target |-> NoArg, direction |-> NoDirection,
     type |-> "", gene |-> gene, disease |-> disease]

\* The cellular components the engine knows for a gene
cellular_locations ==
    ("AKT1" :> {"mitochondrion", "nucleus"})
    @@ ("MAPK1" :> {"mitochondrion", "cytosol"})

\* The components every gene of the list has
common_locations(gene_names) ==
    { c \in UNION { cellular_locations[g] : g \in DOMAIN cellular_locations } :
        \A i \in 1..Len(gene_names) :
            /\ gene_names[i] \in DOMAIN cellular_locations
            /\ c \in cellular_locations[gene_names[i]] }

\* `if not result` of respond_find_cellular_location: no statement of the
\* handler binds result (the call of the engine is commented out), so the
\* test of it raises NameError
find_cellular_location(genes_arg) ==
    IF is_empty(genes_arg)
    THEN Queried(make_failure("MISSING_MECHANISM"), {}, <<>>)
    ELSE IF names_raise(genes_arg)
    THEN Queried(propagated("AttributeError"), {}, <<>>)
    ELSE IF _get_kqml_names(genes_arg) = <<>>
    THEN Queried(make_failure("MISSING_MECHANISM"), {}, <<>>)
    ELSE Queried(propagated("NameError"), {}, <<>>)

respond_find_cellular_location(genes_arg) ==
    LET out == find_cellular_location(genes_arg)
    IN  /\ last' = GeneRequest("FIND-CELLULAR-LOCATION", genes_arg, NoArg)
        /\ reply' = out.reply
        /\ ca_calls' = out.ca_calls
        /\ ca_found' = <<>>
        /\ UNCHANGED <<store, offsets, returned, first, cleared, conc>>

\* _sanitize_disase_name: name.replace("-", " ").lower(), on the disease
\* names of the requests
_sanitize_disase_name ==
    ("breast cancer" :> "breast cancer")
    @@ ("Breast-Cancer" :> "breast cancer")
    @@ ("Ovarian serous cystadenocarcinoma" :> "ovarian serous cystadenocarcinoma")
    @@ ("abc cancer" :> "abc cancer")

\* self.CA.get_tcga_abbr: the TCGA abbreviation of a disease, None if it has none
NoAbbr == "None"
get_tcga_abbr(disease_name) ==
    CASE disease_name = "breast cancer" -> "BRCA"
      [] disease_name = "ovarian serous cystadenocarcinoma" -> "OV"
      [] OTHER -> NoAbbr

\* self.CA.find_mutex: the mutually exclusive groups of a gene in a disease
find_mutex(gene_name, disease_abbr) ==
    IF gene_name = "TP53" /\ disease_abbr = "BRCA"
    THEN <<[score |-> "0.0", group |-> <<"TP53", "CDH1">>],
           [score |-> "0.0", group |-> <<"CDH1", "TP53">>]>>
    ELSE <<>>

\* self.CA.find_mutation_significance
find_mutation_significance(gene_name, disease_abbr) ==
    IF gene_name = "TP53" /\ disease_abbr = "OV"
    THEN "highly significant" ELSE ""

\* What the lookup found, as the handler of task replies it
lookup_reply(task, result) ==
    IF task = "FIND-MUTEX"
    THEN IF result = <<>> THEN make_failure("NO_MUTEX_GENES_FOUND")
         ELSE [head |-> "SUCCESS", reason |-> "", mutex |-> result]
    ELSE IF result = "" THEN make_failure("MISSING_MECHANISM")
         ELSE [head |-> "SUCCESS", reason |-> "", mutsig |-> result]

\* The engine operation that makes the lookup of task
lookup_of(task) ==
    IF task = "FIND-MUTEX" THEN "find_mutex" ELSE "find_mutation_significance"

\* The common body of respond_find_mutex and
\* respond_find_mutation_significance.  The latter does not return after
\* its first make_failure; _get_kqml_names then gives no names for the missing
\* argument, and the handler returns at the check of the names.
find_in_disease(task, gene_arg, disease_arg) ==
    IF is_empty(gene_arg)
    THEN Queried(make_failure("MISSING_MECHANISM"), {}, <<>>)
    ELSE IF names_raise(gene_arg)
    THEN Queried(propagated("AttributeError"), {}, <<>>)
    ELSE IF _get_kqml_names(gene_arg) = <<>>
    THEN Queried(make_failure("MISSING_MECHANISM"), {}, <<>>)
    ELSE IF is_empty(disease_arg)
    THEN Queried(make_failure("MISSING_MECHANISM"), {}, <<>>)
    ELSE IF names_raise(disease_arg)
    THEN Queried(propagated("AttributeError"), {}, <<>>)
    ELSE IF _get_kqml_names(disease_arg) = <<>>
    THEN Queried(make_failure("INVALID_DISEASE"), {}, <<>>)
    ELSE LET gene_name == first_name(_get_kqml_names(gene_arg))
             disease_name ==
                 _sanitize_disase_name[first_name(_get_kqml_names(disease_arg))]
             disease_abbr == get_tcga_abbr(disease_name)
             result == IF task = "FIND-MUTEX"
                       THEN find_mutex(gene_name, disease_abbr)
                       ELSE find_mutation_significance(gene_name, disease_abbr)
         IN  IF disease_abbr = NoAbbr
             THEN Queried(make_failure("INVALID_DISEASE"), {"get_tcga_abbr"}, <<>>)
             ELSE Queried(lookup_reply(task, result),
                          {"get_tcga_abbr", lookup_of(task)}, <<>>)

respond_find_mutex(gene_arg, disease_arg) ==
    LET out == find_in_disease("FIND-MUTEX", gene_arg, disease_arg)
    IN  /\ last' = GeneRequest("FIND-MUTEX", gene_arg, disease_arg)
        /\ reply' = out.reply
        /\ ca_calls' = out.ca_calls
        /\ ca_found' = <<>>
        /\ UNCHANGED <<store, offsets, returned, first, cleared, conc>>

respond_find_mutation_significance(gene_arg, disease_arg) ==
    LET out == find_in_disease("FIND-MUTATION-SIGNIFICANCE", gene_arg, disease_arg)
    IN  /\ last' = GeneRequest("FIND-MUTATION-SIGNIFICANCE", gene_arg, disease_arg)
        /\ reply' = out.reply
        /\ ca_calls' = out.ca_calls
        /\ ca_found' = <<>>
        /\ UNCHANGED <<store, offsets, returned, first, cleared, conc>>

(***************************************************************************)
(* The tasks the module declares and the handlers it defines.              *)
(***************************************************************************)
tasks ==
    {"FIND-CAUSAL-PATH", "FIND-CAUSALITY-TARGET", "FIND-CAUSALITY-SOURCE",
     "DATASET-CORRELATED-ENTITY", "FIND-COMMON-UPSTREAMS",
     "RESTART-CAUSALITY-INDICES", "FIND-MUTEX", "FIND-MUTATION-SIGNIFICANCE",
     "RESET-CAUSALITY-INDICES", "FIND-CELLULAR-LOCATION-FROM-NAMES",
     "FIND-CELLULAR-LOCATION", "FIND-GENE-SUMMARY"}

\* The respond_ methods of CausalityModule
handlers ==
    {"respond_reset_causality_indices", "respond_find_causal_path",
     "respond_find_causality_target", "respond_find_causality_source",
     "respond_dataset_correlated_entity", "respond_find_common_upstreams",
     "respond_find_mutation_significance", "respond_find_mutex",
     "respond_find_cellular_location_from_names",
     "respond_find_cellular_location", "respond_find_mutation_frequency",
     "respond_find_gene_summary"}

\* The name of the method a task is dispatched to: respond_ and the task name
\* in lower case with underscores
handler_of ==
    ("FIND-CAUSAL-PATH" :> "respond_find_causal_path")
    @@ ("FIND-CAUSALITY-TARGET" :> "respond_find_causality_target")
    @@ ("FIND-CAUSALITY-SOURCE" :> "respond_find_causality_source")
    @@ ("DATASET-CORRELATED-ENTITY" :> "respond_dataset_correlated_entity")
    @@ ("FIND-COMMON-UPSTREAMS" :> "respond_find_common_upstreams")
    @@ ("RESTART-CAUSALITY-INDICES" :> "respond_restart_causality_indices")
    @@ ("FIND-MUTEX" :> "respond_find_mutex")
    @@ ("FIND-MUTATION-SIGNIFICANCE" :> "respond_find_mutation_significance")
    @@ ("RESET-CAUSALITY-INDICES" :> "respond_reset_causality_indices")
    @@ ("FIND-CELLULAR-LOCATION-FROM-NAMES" :>
            "respond_find_cellular_location_from_names")
    @@ ("FIND-CELLULAR-LOCATION" :> "respond_find_cellular_location")
    @@ ("FIND-GENE-SUMMARY" :> "respond_find_gene_summary")

\* A request of a declared task that no method handles: the dispatcher finds
\* no respond_ method, and no handler runs
receive_without_handler(task) ==
    /\ task \in tasks
    /\ handler_of[task] \notin handlers
    /\ last' = GeneRequest(task, NoArg, NoArg)
    /\ reply' = propagated("AttributeError")
    /\ ca_calls' = {}
    /\ ca_found' = <<>>
    /\ UNCHANGED <<store, offsets, returned, first, cleared, conc>>

\* The arguments of the gene handlers
GenesArgs ==
    {NoArg, Agents(<<>>), Agents(<<NoName>>), Agents(<<"AKT1">>),
     Agents(<<"AKT1", "MAPK1">>)}
GeneArgs ==
    {NoArg, Agents(<<>>), Agents(<<NoName>>), Agents(<<"TP53">>),
     Agents(<<"BRAF">>)}
DiseaseArgs ==
    {NoArg, Agents(<<>>), Agents(<<NoName>>)}
    \cup { Agents(<<d>>) : d \in DOMAIN _sanitize_disase_name }

NextDispatch ==
    \/ \E source_arg \in ServedArgs : respond_dataset_correlated_entity(source_arg)
    \/ respond_reset_causality_indices(NoArg)
    \/ \E genes_arg \in GenesArgs : respond_find_cellular_location(genes_arg)
    \/ \E gene_arg \in GeneArgs, disease_arg \in DiseaseArgs :
            respond_find_mutex(gene_arg, disease_arg)
    \/ \E gene_arg \in GeneArgs, disease_arg \in DiseaseArgs :
            respond_find_mutation_significance(gene_arg, disease_arg)
    \/ \E task \in tasks : receive_without_handler(task)

SpecDispatch == InitServing /\ [][NextDispatch]_vars

\* A gene request of one of the given tasks was the last one answered
IsGeneRequest(req, which) == req.task \in which

\* The argument is present and carries at least one term, each with a name
HasNames(arg) == ~is_empty(arg) /\ ~names_raise(arg)

\* C22: a FIND-CELLULAR-LOCATION request whose GENES argument names genes that
\* share a cellular component is answered SUCCESS.
C22_LocationOfNamedGenes ==
    (/\ IsGeneRequest(last, {"FIND-CELLULAR-LOCATION"})
     /\ HasNames(last.gene)
     /\ common_locations(_get_kqml_names(last.gene)) # {})
        => reply.head = "SUCCESS"

\* C23: FIND-MUTEX and FIND-MUTATION-SIGNIFICANCE answer FAILURE
\* MISSING_MECHANISM when the GENE argument is missing or nameless or the
\* DISEASE argument is missing, and FAILURE INVALID_DISEASE when the disease has
\* no names or no TCGA abbreviation; in each case no mutex or significance
\* lookup is made.
C23_GeneAndDiseaseAreValidated ==
    IsGeneRequest(last, {"FIND-MUTEX", "FIND-MUTATION-SIGNIFICANCE"}) =>
        /\ (~HasNames(last.gene) \/ ~last.disease.present) =>
               /\ reply = make_failure("MISSING_MECHANISM")
               /\ lookup_of(last.task) \notin ca_calls
        /\ (/\ HasNames(last.gene)
            /\ last.disease.present
            /\ \/ ~HasNames(last.disease)
               \/ get_tcga_abbr(_sanitize_disase_name[
                      first_name(_get_kqml_names(last.disease))]) = NoAbbr) =>
               /\ reply = make_failure("INVALID_DISEASE")
               /\ lookup_of(last.task) \notin ca_calls

\* C27: every task the module declares has a respond_ handler, in particular
\* RESET-CAUSALITY-INDICES and RESTART-CAUSALITY-INDICES, so no request of a
\* declared task is left without a handler.
C27_EveryTaskHasHandler ==
    /\ \A task \in tasks : handler_of[task] \in handlers
    /\ last.task \in tasks => reply # propagated("AttributeError")
                                \/ handler_of[last.task] \in handlers

\* Every edge of the result carries a modification site on its object side
AllHaveObjectSites(result) ==
    \A i \in 1..Len(result) : object_mods(result[i]) # <<>>

\* C24: every relation the two verb tables produce has an entry in the
\* relation map of the view builder: a discovery query with a known verb and a
\* non-empty result never fails the lookup of its relation, and is answered
\* SUCCESS.
C24_VerbRelationsHaveViews ==
    (/\ IsDiscovery(last)
     /\ last.type \in DOMAIN VerbTable(last)
     /\ ca_found # <<>>) =>
        /\ upper[VerbTable(last)[last.type]] \in DOMAIN indra_relation_map
        /\ reply.reason # "KeyError"
        /\ AllHaveObjectSites(ca_found) => reply.head = "SUCCESS"

\* The relation of every edge of the result has an entry in the relation map
AllHaveViews(result) ==
    \A i \in 1..Len(result) : upper[result[i].rel] \in DOMAIN indra_relation_map

\* C26: the view is built for every resolved assertion, also for one whose
\* object side has no modification site and one whose relation is not
\* phosphorylation-like: a FIND-CAUSAL-PATH request that resolves an edge never
\* fails while extracting residue and position, and is answered SUCCESS.
C26_ViewBuiltForEveryAssertion ==
    (last.task = "FIND-CAUSAL-PATH" /\ ca_found # <<>>) =>
        /\ reply.reason # "IndexError"
        /\ AllHaveViews(ca_found) => reply.head = "SUCCESS"

\* C25: in every reachable state the offset of each source lies between 0 and
\* the length of the correlation table of the source, and an advance that is
\* answered Exhausted (FAILURE NO_PATH_FOUND) leaves every offset as it was.
C25_OffsetWithinTable ==
    /\ [](\A S \in Entities : offsets[S] >= 0 /\ offsets[S] <= Len(corr[S]))
    /\ [][ (IsAdvance(last') /\ reply' = make_failure("NO_PATH_FOUND"))
              => offsets' = offsets ]_vars

\* The offset of a source with a full table stands at the length of the table,
\* and the advance after the last record was answered Exhausted
C25_Witness ==
    \E S \in Entities :
        /\ IsAdvance(last)
        /\ requested(last.source) = S
        /\ Len(corr[S]) = MaxTableLen
        /\ offsets[S] = MaxTableLen
        /\ reply = make_failure("NO_PATH_FOUND")

\* C28: a DATASET-CORRELATED-ENTITY request with no SOURCE argument, or with a
\* SOURCE that holds no names, is answered FAILURE MISSING_MECHANISM, the
\* engine is not called and every offset stays as it was; no request moves an
\* offset unless a source name was extracted from it.
C28_RejectedAdvanceKeepsOffsets ==
    [][ /\ (last'.task = "DATASET-CORRELATED-ENTITY" /\ is_empty(last'.source))
            => /\ reply' = make_failure("MISSING_MECHANISM")
               /\ ca_calls' = {}
               /\ offsets' = offsets
        /\ (last'.task = "DATASET-CORRELATED-ENTITY" /\ ~HasNames(last'.source))
            => offsets' = offsets ]_vars

\* A request without source names was rejected while a cursor had advanced
C28_Witness ==
    /\ last.task = "DATASET-CORRELATED-ENTITY"
    /\ is_empty(last.source)
    /\ reply = make_failure("MISSING_MECHANISM")
    /\ \E S \in Entities : offsets[S] > 0 /\ offsets[S] < Len(corr[S])

====
